---- MODULE Spec2Model ----
(***************************************************************************)
(* Model of the Elasticsearch exporter (elasticsearch_exporter.go): the    *)
(* metric tables, NewExporter, Exporter.Describe, and Exporter.Collect run *)
(* by several concurrent scrape requests.  Each statement group of Collect *)
(* is one action; the program counter pc[p] names the statement a request  *)
(* is at.                                                                  *)
(***************************************************************************)
EXTENDS Integers, Sequences, FiniteSets, TLC

(***************************************************************************)
(* Bounds of the model.                                                    *)
(***************************************************************************)
NumProcs == 2       \* concurrent scrape requests
MaxNodes == 2       \* node entries in one payload

Procs == 1..NumProcs
NoProc == 0

(***************************************************************************)
(* The metric tables (package-level vars).  A scalar table maps a metric   *)
(* name to its help text, a vector table to its VecInfo.                   *)
(***************************************************************************)
VecInfo(h, l) == [help |-> h, labels |-> l]

gaugeMetrics ==
     ("indices_fielddata_memory_size_bytes" :> "Field data cache memory usage in bytes")
  @@ ("indices_filter_cache_memory_size_bytes" :> "Field data cache memory usage in bytes")
  @@ ("indices_docs" :> "Count of documents on this node")
  @@ ("indices_docs_deleted" :> "Count of deleted documents on this node")
  @@ ("indices_store_size_bytes" :> "Current size of stored index data in bytes")
  @@ ("indices_segments_memory_bytes" :> "Current memory size of segments in bytes")
  @@ ("jvm_mem_heap_committed_bytes" :> "JVM heap memory currently committed")
  @@ ("jvm_mem_heap_used_bytes" :> "JVM heap memory currently used")
  @@ ("jvm_mem_heap_max_bytes" :> "JVM heap memory max")
  @@ ("jvm_mem_non_heap_committed_bytes" :> "JVM non-heap memory currently committed")
  @@ ("jvm_mem_non_heap_used_bytes" :> "JVM non-heap memory currently used")

counterMetrics ==
     ("indices_fielddata_evictions" :> "Evictions from field data")
  @@ ("indices_filter_cache_evictions" :> "Evictions from field data")
  @@ ("indices_flush_total" :> "Total flushes")
  @@ ("indices_flush_time_ms_total" :> "Cumulative flush time in milliseconds")
  @@ ("transport_rx_packets_total" :> "Count of packets received")
  @@ ("transport_rx_size_bytes_total" :> "Total number of bytes received")
  @@ ("transport_tx_packets_total" :> "Count of packets sent")
  @@ ("transport_tx_size_bytes_total" :> "Total number of bytes sent")
  @@ ("indices_store_throttle_time_ms_total" :> "Throttle time for index store in milliseconds")
  @@ ("indices_indexing_index_total" :> "Total index calls")
  @@ ("indices_indexing_index_time_ms_total" :> "Cumulative index time in milliseconds")
  @@ ("indices_merges_total" :> "Total merges")
  @@ ("indices_merges_total_docs_total" :> "Cumulative docs merged")
  @@ ("indices_merges_total_size_bytes_total" :> "Total merge size in bytes")
  @@ ("indices_merges_total_time_ms_total" :> "Total time spent merging in milliseconds")

counterVecMetrics ==
     ("jvm_gc_collections" :> VecInfo("Count of JVM GC runs", <<"collector">>))
  @@ ("jvm_gc_collections_time_ms" :> VecInfo("GC run time in milliseconds", <<"collector">>))

\* gaugeVecMetrics with a name that gaugeMetrics declares as well.
gaugeVecMetricsDuplicate ==
     ("breakers_estimated_size_bytes" :> VecInfo("Estimated size in bytes of breaker", <<"breaker">>))
  @@ ("breakers_limit_size_bytes" :> VecInfo("Limit size in bytes for breaker", <<"breaker">>))
  @@ ("indices_docs" :> VecInfo("Count of documents", <<"index">>))

gaugeVecMetrics ==
     ("breakers_estimated_size_bytes" :> VecInfo("Estimated size in bytes of breaker", <<"breaker">>))
  @@ ("breakers_limit_size_bytes" :> VecInfo("Limit size in bytes for breaker", <<"breaker">>))

(***************************************************************************)
(* A metric vector of the client library, as far as Collect uses it: the   *)
(* label names it was declared with and its series, a function from        *)
(* label-value tuples to values.                                           *)
(***************************************************************************)
NoSeries == [k \in {} |-> 0]

NewVec(h, l) == [help |-> h, labels |-> l, series |-> NoSeries]

\* vec.Reset() leaving the series in place.
VecKept(vec) == vec

\* vec.Reset(): drops every series.
VecReset(vec) == [vec EXCEPT !.series = NoSeries]

\* WithLabelValues(lvs...) panics unless it gets one value per declared label.
LabelsMatch(vec, lvs) == Len(lvs) = Len(vec.labels)

\* float64(x) of an integer field: exact for every integer below 2^53, which
\* covers every value the model checker represents.
Float64(x) == x

\* vec.WithLabelValues(lvs...).Set(v): creates the series or overwrites it.
VecSet(vec, lvs, v) ==
  [vec EXCEPT !.series =
     [k \in (DOMAIN vec.series) \cup {lvs} |-> IF k = lvs THEN v ELSE vec.series[k]]]

(***************************************************************************)
(* NewExporter: the four loops fill the two instrument maps; a name that   *)
(* is in both a vector and a scalar table keeps the scalar instrument,     *)
(* which the later loop stores.                                            *)
(***************************************************************************)
\* NewCounters with the cluster label appended after the dimension labels.
NewCountersClusterLast ==
  [name \in (DOMAIN counterVecMetrics) \cup (DOMAIN counterMetrics) |->
     IF name \in DOMAIN counterMetrics
       THEN NewVec(counterMetrics[name], <<"cluster">>)
       ELSE NewVec(counterVecMetrics[name].help,
                   counterVecMetrics[name].labels \o <<"cluster">>)]

NewCounters ==
  [name \in (DOMAIN counterVecMetrics) \cup (DOMAIN counterMetrics) |->
     IF name \in DOMAIN counterMetrics
       THEN NewVec(counterMetrics[name], <<"cluster">>)
       ELSE NewVec(counterVecMetrics[name].help,
                   <<"cluster">> \o counterVecMetrics[name].labels)]

\* NewGauges with the vector gauges given the cluster label only.
NewGaugesClusterOnly ==
  [name \in (DOMAIN gaugeVecMetrics) \cup (DOMAIN gaugeMetrics) |->
     IF name \in DOMAIN gaugeMetrics
       THEN NewVec(gaugeMetrics[name], <<"cluster">>)
       ELSE NewVec(gaugeVecMetrics[name].help, <<"cluster">>)]

NewGauges ==
  [name \in (DOMAIN gaugeVecMetrics) \cup (DOMAIN gaugeMetrics) |->
     IF name \in DOMAIN gaugeMetrics
       THEN NewVec(gaugeMetrics[name], <<"cluster">>)
       ELSE NewVec(gaugeVecMetrics[name].help,
                   <<"cluster">> \o gaugeVecMetrics[name].labels)]

(***************************************************************************)
(* The decode target.  NodeStats holds the integer fields Collect reads    *)
(* (named by their Go paths), the GC collectors and the breakers.          *)
(***************************************************************************)
ScalarFields ==
  << "JVM.Mem.HeapCommitted", "JVM.Mem.HeapUsed", "JVM.Mem.HeapMax",
     "JVM.Mem.NonHeapCommitted", "JVM.Mem.NonHeapUsed",
     "Indices.FieldData.MemorySize", "Indices.FilterCache.MemorySize",
     "Indices.FilterCache.Evictions", "Indices.FieldData.Evictions",
     "Indices.Docs.Count", "Indices.Docs.Deleted",
     "Indices.Segments.Memory",
     "Indices.Store.Size", "Indices.Store.ThrottleTime",
     "Indices.Flush.Total", "Indices.Flush.Time",
     "Indices.Indexing.IndexTime", "Indices.Indexing.IndexTotal",
     "Indices.Merges.TotalTime", "Indices.Merges.TotalSize",
     "Indices.Merges.Total", "Indices.Merges.TotalDocs",
     "Transport.RxCount", "Transport.RxSize",
     "Transport.TxCount", "Transport.TxSize" >>

FieldSet == {ScalarFields[i] : i \in DOMAIN ScalarFields}

FieldIndex(f) == CHOOSE i \in DOMAIN ScalarFields : ScalarFields[i] = f

CollectorNames == <<"young", "old">>
BreakerNames == <<"fielddata", "request">>

NameIndex(names, n) == CHOOSE i \in DOMAIN names : names[i] = n

\* The node documents the model draws payloads from, by number.  Document v
\* gives every field a value of its own, so that a field written to another
\* field's instrument, or a value kept from another node, shows; between
\* them the documents have two, one and no collector, and one, no and two
\* breakers.
FieldVal(f, v) == 10 * FieldIndex(f) + v

NodeDocs == {1, 2, 3}

DocCollectors(v) == CASE v = 1 -> {"young", "old"} [] v = 2 -> {"young"} [] OTHER -> {}
DocBreakers(v) == CASE v = 1 -> {"fielddata"} [] v = 2 -> {} [] OTHER -> {"fielddata", "request"}

\* The NodeStats that node document v decodes to.
DecodeNode(v) ==
  [ scalar     |-> [f \in FieldSet |-> FieldVal(f, v)],
    Collectors |-> [c \in DocCollectors(v) |->
                      [CollectionCount |-> 1000 + 10 * NameIndex(CollectorNames, c) + v,
                       CollectionTime  |-> 2000 + 10 * NameIndex(CollectorNames, c) + v]],
    Breakers   |-> [b \in DocBreakers(v) |->
                      [EstimatedSize |-> 3000 + 10 * NameIndex(BreakerNames, b) + v,
                       LimitSize     |-> 4000 + 10 * NameIndex(BreakerNames, b) + v]] ]

IsInjective(f) == \A i, j \in DOMAIN f : f[i] = f[j] => i = j

\* The "nodes" member of a payload: node id to node document, the entries of
\* one payload being different documents.
NodeMaps ==
  UNION {{f \in [1..k -> NodeDocs] : IsInjective(f)} : k \in 0..MaxNodes}

ClusterNames == {"es-test", "es-prod"}

\* The zero value of NodeStatsResponse.
ZeroStats == [ClusterName |-> "", Nodes |-> <<>>]

(***************************************************************************)
(* A response body: not JSON at all, or a JSON object given by its         *)
(* members.                                                                *)
(***************************************************************************)
Malformed == [kind |-> "malformed"]

JSONObject(m) == [kind |-> "object", members |-> m]

Bodies ==
  {Malformed, JSONObject([not |-> "valid"])}
    \cup {JSONObject([cluster_name |-> c, nodes |-> n]) : c \in ClusterNames, n \in NodeMaps}

\* json.Unmarshal(body, &allStats): an error for a body that is no JSON;
\* for an object, the members the struct names, the zero value for a member
\* the body lacks, and members the struct does not name are ignored.
Unmarshal(b) ==
  IF b.kind = "malformed"
    THEN [err |-> TRUE, stats |-> ZeroStats]
    ELSE [err |-> FALSE,
          stats |-> [ClusterName |-> IF "cluster_name" \in DOMAIN b.members
                                       THEN b.members.cluster_name ELSE "",
                     Nodes |-> IF "nodes" \in DOMAIN b.members
                                 THEN [i \in DOMAIN b.members.nodes |->
                                         DecodeNode(b.members.nodes[i])]
                                 ELSE <<>>]]

(***************************************************************************)
(* What the Elasticsearch node answers to GET /_nodes/_local/stats.        *)
(***************************************************************************)
Refuse == [mode |-> "refuse"]
BadRead == [mode |-> "badread"]
Serve(b) == [mode |-> "serve", body |-> b]

Upstreams == {Refuse, BadRead} \cup {Serve(b) : b \in Bodies}

(***************************************************************************)
(* The remapping of Collect's loop body.  An instrument set is the pair of *)
(* maps of the Exporter; a set on a name the map lacks dereferences nil    *)
(* and a set with the wrong number of label values panics.                 *)
(***************************************************************************)
CanSet(tbl, name, lvs) == name \in DOMAIN tbl /\ LabelsMatch(tbl[name], lvs)

\* e.<tbl>[name].WithLabelValues(lvs...).Set(float64(v))
SetIn(tbl, name, lvs, v) ==
  IF CanSet(tbl, name, lvs)
    THEN [tbl EXCEPT ![name] = VecSet(tbl[name], lvs, Float64(v))]
    ELSE tbl

Instr(c, g, bad) == [counters |-> c, gauges |-> g, panicked |-> bad]

\* A panic ends the loop body: no later set of the cycle is made.
SetCounter(in, name, lvs, v) ==
  IF in.panicked THEN in
  ELSE Instr(SetIn(in.counters, name, lvs, v), in.gauges,
             ~CanSet(in.counters, name, lvs))

SetGauge(in, name, lvs, v) ==
  IF in.panicked THEN in
  ELSE Instr(in.counters, SetIn(in.gauges, name, lvs, v),
             ~CanSet(in.gauges, name, lvs))

\* RemapCollectors setting a series of value 0, under an empty collector
\* name, when the node has no collector.
RECURSIVE RemapCollectorsZeroed(_, _, _, _)
RemapCollectorsZeroed(in, cluster, collectors, todo) ==
  IF DOMAIN collectors = {}
    THEN SetCounter(SetCounter(in, "jvm_gc_collections", <<cluster, "">>, 0),
                    "jvm_gc_collections_time_ms", <<cluster, "">>, 0)
  ELSE IF todo = {} THEN in
  ELSE LET collector == CHOOSE c \in todo : TRUE
           gcstats == collectors[collector]
           a == SetCounter(in, "jvm_gc_collections",
                           <<cluster, collector>>, gcstats.CollectionCount)
           b == SetCounter(a, "jvm_gc_collections_time_ms",
                           <<cluster, collector>>, gcstats.CollectionTime)
       IN  RemapCollectorsZeroed(b, cluster, collectors, todo \ {collector})

\* for collector, gcstats := range stats.JVM.GC.Collectors
RECURSIVE RemapCollectors(_, _, _, _)
RemapCollectors(in, cluster, collectors, todo) ==
  IF todo = {} THEN in
  ELSE LET collector == CHOOSE c \in todo : TRUE
           gcstats == collectors[collector]
           a == SetCounter(in, "jvm_gc_collections",
                           <<cluster, collector>>, gcstats.CollectionCount)
           b == SetCounter(a, "jvm_gc_collections_time_ms",
                           <<cluster, collector>>, gcstats.CollectionTime)
       IN  RemapCollectors(b, cluster, collectors, todo \ {collector})

\* RemapBreakers with the two fields of a breaker swapped.
RECURSIVE RemapBreakersSwapped(_, _, _, _)
RemapBreakersSwapped(in, cluster, breakers, todo) ==
  IF todo = {} THEN in
  ELSE LET breaker == CHOOSE b \in todo : TRUE
           bstats == breakers[breaker]
           a == SetGauge(in, "breakers_estimated_size_bytes",
                         <<cluster, breaker>>, bstats.LimitSize)
           b == SetGauge(a, "breakers_limit_size_bytes",
                         <<cluster, breaker>>, bstats.EstimatedSize)
       IN  RemapBreakersSwapped(b, cluster, breakers, todo \ {breaker})

\* for breaker, bstats := range stats.Breakers
RECURSIVE RemapBreakers(_, _, _, _)
RemapBreakers(in, cluster, breakers, todo) ==
  IF todo = {} THEN in
  ELSE LET breaker == CHOOSE b \in todo : TRUE
           bstats == breakers[breaker]
           a == SetGauge(in, "breakers_estimated_size_bytes",
                         <<cluster, breaker>>, bstats.EstimatedSize)
           b == SetGauge(a, "breakers_limit_size_bytes",
                         <<cluster, breaker>>, bstats.LimitSize)
       IN  RemapBreakers(b, cluster, breakers, todo \ {breaker})

\* The scalar sets of the loop body, in the order of the source: the map
\* set, the instrument name and the field read.
ScalarRemap ==
  << <<"gauges", "jvm_mem_heap_committed_bytes", "JVM.Mem.HeapCommitted">>,
     <<"gauges", "jvm_mem_heap_used_bytes", "JVM.Mem.HeapUsed">>,
     <<"gauges", "jvm_mem_heap_max_bytes", "JVM.Mem.HeapMax">>,
     <<"gauges", "jvm_mem_non_heap_committed_bytes", "JVM.Mem.NonHeapCommitted">>,
     <<"gauges", "jvm_mem_non_heap_used_bytes", "JVM.Mem.NonHeapUsed">>,
     <<"gauges", "indices_fielddata_memory_size_bytes", "Indices.FieldData.MemorySize">>,
     <<"gauges", "indices_filter_cache_memory_size_bytes", "Indices.FilterCache.MemorySize">>,
     <<"counters", "indices_filter_cache_evictions", "Indices.FilterCache.Evictions">>,
     <<"counters", "indices_fielddata_evictions", "Indices.FieldData.Evictions">>,
     <<"gauges", "indices_docs", "Indices.Docs.Count">>,
     <<"gauges", "indices_docs_deleted", "Indices.Docs.Deleted">>,
     <<"gauges", "indices_segments_memory_bytes", "Indices.Segments.Memory">>,
     <<"gauges", "indices_store_size_bytes", "Indices.Store.Size">>,
     <<"counters", "indices_store_throttle_time_ms_total", "Indices.Store.ThrottleTime">>,
     <<"counters", "indices_flush_total", "Indices.Flush.Total">>,
     <<"counters", "indices_flush_time_ms_total", "Indices.Flush.Time">>,
     <<"counters", "indices_indexing_index_time_ms_total", "Indices.Indexing.IndexTime">>,
     <<"counters", "indices_indexing_index_total", "Indices.Indexing.IndexTotal">>,
     <<"counters", "indices_merges_total_time_ms_total", "Indices.Merges.TotalTime">>,
     <<"counters", "indices_merges_total_size_bytes_total", "Indices.Merges.TotalSize">>,
     <<"counters", "indices_merges_total", "Indices.Merges.Total">>,
     <<"counters", "transport_rx_packets_total", "Transport.RxCount">>,
     <<"counters", "transport_rx_size_bytes_total", "Transport.RxSize">>,
     <<"counters", "transport_tx_packets_total", "Transport.TxCount">>,
     <<"counters", "transport_tx_size_bytes_total", "Transport.TxSize">> >>

RECURSIVE RemapScalars(_, _, _, _)
RemapScalars(in, cluster, stats, i) ==
  IF i > Len(ScalarRemap) THEN in
  ELSE LET op == ScalarRemap[i]
           v == stats.scalar[op[3]]
           next == IF op[1] = "gauges"
                     THEN SetGauge(in, op[2], <<cluster>>, v)
                     ELSE SetCounter(in, op[2], <<cluster>>, v)
       IN  RemapScalars(next, cluster, stats, i + 1)

\* One iteration of `for _, stats := range allStats.Nodes`.
RemapNode(in, cluster, stats) ==
  LET a == RemapCollectors(in, cluster, stats.Collectors, DOMAIN stats.Collectors)
      b == RemapBreakers(a, cluster, stats.Breakers, DOMAIN stats.Breakers)
  IN  RemapScalars(b, cluster, stats, 1)

(***************************************************************************)
(* State.                                                                  *)
(***************************************************************************)
VARIABLES
  mutex,      \* e.mutex: the request holding it, or NoProc
  up,         \* e.up
  counters,   \* e.counters
  gauges,     \* e.gauges
  pc,         \* pc[p]: the statement of Collect request p is at
  err,        \* err[p]: which step of p's cycle failed, or "none"
  resp,       \* resp[p]: the response client.Get returned to p
  body,       \* body[p]: the bytes ioutil.ReadAll returned to p
  allStats,   \* allStats[p]: p's decoded NodeStatsResponse
  todo,       \* todo[p]: the node ids the range loop of p has still to visit
  sent,       \* sent[p]: what p has sent on the channel ch of its invocation
  upstream,   \* what the Elasticsearch node answers at present
  last,       \* history: the state the last cycle left, if it ran against
              \* the present upstream
  before,     \* history: before[p], the series held when p took the lock
  descs       \* what the last Describe sent on its channel

vars == <<mutex, up, counters, gauges, pc, err, resp, body, allStats, todo,
          sent, upstream, last, before, descs>>

NoResp == [mode |-> "none"]
NoBody == [kind |-> "none"]
NoSnap == [valid |-> FALSE]

Snapshot == [valid |-> TRUE, up |-> up, counters |-> counters, gauges |-> gauges]

\* The series of one instrument map, as (name, label values, value) triples.
SeriesOf(tbl) ==
  UNION {{[name |-> n, lvs |-> k, value |-> tbl[n].series[k]] : k \in DOMAIN tbl[n].series} :
           n \in DOMAIN tbl}

\* The label-value tuples of the series the instruments hold.
HeldKeys == {s.lvs : s \in SeriesOf(counters) \cup SeriesOf(gauges)}

\* vec.Desc(): the descriptor of an instrument is its name, help text and
\* label names; it carries no series.
Desc(name, vec) == [name |-> name, help |-> vec.help, labels |-> vec.labels]

\* e.up.Desc(), from the options NewExporter gives the gauge.
UpDesc ==
  [name |-> "up", help |-> "Was the Elasticsearch instance query successful?",
   labels |-> <<>>]

\* vec.Describe(ch) for every vec of one instrument map.
DescsOf(tbl) == {Desc(n, tbl[n]) : n \in DOMAIN tbl}

\* What Describe sends when it leaves out the gauges.
DescribedWithoutGauges(c, g) == << {UpDesc}, DescsOf(c) >>

\* What Describe sends: up's descriptor, then those of the counters, then
\* those of the gauges.
Described(c, g) == << {UpDesc}, DescsOf(c), DescsOf(g) >>

Init ==
  /\ mutex = NoProc
  /\ up = 0
  /\ counters = NewCounters
  /\ gauges = NewGauges
  /\ pc = [p \in Procs |-> "idle"]
  /\ err = [p \in Procs |-> "none"]
  /\ resp = [p \in Procs |-> NoResp]
  /\ body = [p \in Procs |-> NoBody]
  /\ allStats = [p \in Procs |-> ZeroStats]
  /\ todo = [p \in Procs |-> {}]
  /\ sent = [p \in Procs |-> <<>>]
  /\ upstream \in Upstreams
  /\ last = NoSnap
  /\ before = [p \in Procs |-> {}]
  /\ descs = Described(counters, gauges)

\* The exporter as NewExporter returns it, prometheus.MustRegister not yet
\* having described it.
InitUnregistered ==
  /\ mutex = NoProc
  /\ up = 0
  /\ counters = NewCounters
  /\ gauges = NewGauges
  /\ pc = [p \in Procs |-> "idle"]
  /\ err = [p \in Procs |-> "none"]
  /\ resp = [p \in Procs |-> NoResp]
  /\ body = [p \in Procs |-> NoBody]
  /\ allStats = [p \in Procs |-> ZeroStats]
  /\ todo = [p \in Procs |-> {}]
  /\ sent = [p \in Procs |-> <<>>]
  /\ upstream \in Upstreams
  /\ last = NoSnap
  /\ before = [p \in Procs |-> {}]
  /\ descs = <<>>

(***************************************************************************)
(* Collect, statement by statement.                                        *)
(***************************************************************************)
\* The registry calls e.Collect(ch) with the channel of this scrape.
Call(p) ==
  /\ pc[p] = "idle"
  /\ pc' = [pc EXCEPT ![p] = "lock"]
  /\ UNCHANGED <<mutex, up, counters, gauges, err, resp, body, allStats, todo,
                 sent, upstream, last, before, descs>>

\* Lock(p) without the wait for the mutex.
LockNoWait(p) ==
  /\ pc[p] = "lock"
  /\ mutex' = p
  /\ before' = [before EXCEPT ![p] = HeldKeys]
  /\ pc' = [pc EXCEPT ![p] = "resetGauges"]
  /\ UNCHANGED <<up, counters, gauges, err, resp, body, allStats, todo, sent,
                 upstream, last, descs>>

\* e.mutex.Lock(); defer e.mutex.Unlock()
Lock(p) ==
  /\ pc[p] = "lock"
  /\ mutex = NoProc
  /\ mutex' = p
  /\ before' = [before EXCEPT ![p] = HeldKeys]
  /\ pc' = [pc EXCEPT ![p] = "resetGauges"]
  /\ UNCHANGED <<up, counters, gauges, err, resp, body, allStats, todo, sent,
                 upstream, last, descs>>

\* ResetGauges(p) with the loop left out.
ResetGaugesSkipped(p) ==
  /\ pc[p] = "resetGauges"
  /\ pc' = [pc EXCEPT ![p] = "resetCounters"]
  /\ UNCHANGED <<mutex, up, counters, gauges, err, resp, body, allStats, todo,
                 sent, upstream, last, before, descs>>

\* for _, vec := range e.gauges { vec.Reset() }
ResetGauges(p) ==
  /\ pc[p] = "resetGauges"
  /\ gauges' = [n \in DOMAIN gauges |-> VecReset(gauges[n])]
  /\ pc' = [pc EXCEPT ![p] = "resetCounters"]
  /\ UNCHANGED <<mutex, up, counters, err, resp, body, allStats, todo, sent,
                 upstream, last, before, descs>>

\* ResetCounters(p) with the loop left out.
ResetCountersSkipped(p) ==
  /\ pc[p] = "resetCounters"
  /\ pc' = [pc EXCEPT ![p] = "get"]
  /\ UNCHANGED <<mutex, up, counters, gauges, err, resp, body, allStats, todo,
                 sent, upstream, last, before, descs>>

\* for _, vec := range e.counters { vec.Reset() }
ResetCounters(p) ==
  /\ pc[p] = "resetCounters"
  /\ counters' = [n \in DOMAIN counters |-> VecReset(counters[n])]
  /\ pc' = [pc EXCEPT ![p] = "get"]
  /\ UNCHANGED <<mutex, up, gauges, err, resp, body, allStats, todo, sent,
                 upstream, last, before, descs>>

\* Get(p) without e.up.Set(0) on the error path.
GetKeepsUp(p) ==
  /\ pc[p] = "get"
  /\ \E u \in Upstreams :
       /\ upstream' = u
       /\ last' = IF u = upstream THEN last ELSE NoSnap
       /\ IF u.mode = "refuse"
            THEN /\ err' = [err EXCEPT ![p] = "get"]
                 /\ pc' = [pc EXCEPT ![p] = "unlock"]
                 /\ resp' = resp
            ELSE /\ resp' = [resp EXCEPT ![p] = u]
                 /\ pc' = [pc EXCEPT ![p] = "read"]
                 /\ err' = err
  /\ UNCHANGED <<mutex, up, counters, gauges, body, allStats, todo, sent, before, descs>>

\* resp, err := e.client.Get(e.URI), against whatever the node answers now;
\* on an error e.up.Set(0) and return.
Get(p) ==
  /\ pc[p] = "get"
  /\ \E u \in Upstreams :
       /\ upstream' = u
       /\ last' = IF u = upstream THEN last ELSE NoSnap
       /\ IF u.mode = "refuse"
            THEN /\ up' = 0
                 /\ err' = [err EXCEPT ![p] = "get"]
                 /\ pc' = [pc EXCEPT ![p] = "unlock"]
                 /\ resp' = resp
            ELSE /\ resp' = [resp EXCEPT ![p] = u]
                 /\ pc' = [pc EXCEPT ![p] = "read"]
                 /\ UNCHANGED <<up, err>>
  /\ UNCHANGED <<mutex, counters, gauges, body, allStats, todo, sent, before, descs>>

\* body, err := ioutil.ReadAll(resp.Body); on an error e.up.Set(0) and return.
ReadAll(p) ==
  /\ pc[p] = "read"
  /\ IF resp[p].mode = "badread"
       THEN /\ up' = 0
            /\ err' = [err EXCEPT ![p] = "read"]
            /\ pc' = [pc EXCEPT ![p] = "unlock"]
            /\ body' = body
       ELSE /\ body' = [body EXCEPT ![p] = resp[p].body]
            /\ pc' = [pc EXCEPT ![p] = "setUp"]
            /\ UNCHANGED <<up, err>>
  /\ UNCHANGED <<mutex, counters, gauges, resp, allStats, todo, sent, upstream,
                 last, before, descs>>

\* SetUp(p) with the statement left out.
SetUpSkipped(p) ==
  /\ pc[p] = "setUp"
  /\ pc' = [pc EXCEPT ![p] = "unmarshal"]
  /\ UNCHANGED <<mutex, up, counters, gauges, err, resp, body, allStats, todo,
                 sent, upstream, last, before, descs>>

\* SetUp(p) with e.up.Inc() for e.up.Set(1).
SetUpInc(p) ==
  /\ pc[p] = "setUp"
  /\ up' = up + 1
  /\ pc' = [pc EXCEPT ![p] = "unmarshal"]
  /\ UNCHANGED <<mutex, counters, gauges, err, resp, body, allStats, todo, sent,
                 upstream, last, before, descs>>

\* e.up.Set(1)
SetUp(p) ==
  /\ pc[p] = "setUp"
  /\ up' = 1
  /\ pc' = [pc EXCEPT ![p] = "unmarshal"]
  /\ UNCHANGED <<mutex, counters, gauges, err, resp, body, allStats, todo, sent,
                 upstream, last, before, descs>>

\* err = json.Unmarshal(body, &allStats); on an error return.  Otherwise the
\* node count is logged when it is not 1 and the range loop starts.
Decode(p) ==
  /\ pc[p] = "unmarshal"
  /\ LET r == Unmarshal(body[p])
     IN  IF r.err
           THEN /\ err' = [err EXCEPT ![p] = "decode"]
                /\ pc' = [pc EXCEPT ![p] = "unlock"]
                /\ UNCHANGED <<allStats, todo>>
           ELSE /\ allStats' = [allStats EXCEPT ![p] = r.stats]
                /\ todo' = [todo EXCEPT ![p] = DOMAIN r.stats.Nodes]
                /\ pc' = [pc EXCEPT ![p] =
                            IF DOMAIN r.stats.Nodes = {} THEN "sendUp" ELSE "remap"]
                /\ err' = err
  /\ UNCHANGED <<mutex, up, counters, gauges, resp, body, sent, upstream, last,
                 before, descs>>

\* One iteration of the range loop over allStats.Nodes; a Go map is ranged
\* over in an unspecified order.
Remap(p) ==
  /\ pc[p] = "remap"
  /\ \E n \in todo[p] :
       LET out == RemapNode(Instr(counters, gauges, FALSE),
                            allStats[p].ClusterName, allStats[p].Nodes[n])
       IN  /\ counters' = out.counters
           /\ gauges' = out.gauges
           /\ todo' = [todo EXCEPT ![p] = todo[p] \ {n}]
           /\ IF out.panicked
                THEN /\ err' = [err EXCEPT ![p] = "panic"]
                     /\ pc' = [pc EXCEPT ![p] = "unlock"]
                ELSE /\ err' = err
                     /\ pc' = [pc EXCEPT ![p] =
                                 IF todo[p] = {n} THEN "sendUp" ELSE "remap"]
  /\ UNCHANGED <<mutex, up, resp, body, allStats, sent, upstream, last, before, descs>>

\* What one loop of the report sends: the series of the instruments it
\* ranges over, whose order among themselves is unspecified.
Batch(kind, metrics) == [kind |-> kind, metrics |-> metrics]

\* SendUp(p) with the mutex released before the report starts.
SendUpUnlocked(p) ==
  /\ pc[p] = "sendUp"
  /\ mutex' = NoProc
  /\ sent' = [sent EXCEPT ![p] =
                Append(@, Batch("up", {[name |-> "up", lvs |-> <<>>, value |-> up]}))]
  /\ pc' = [pc EXCEPT ![p] = "collectCounters"]
  /\ UNCHANGED <<up, counters, gauges, err, resp, body, allStats, todo,
                 upstream, last, before, descs>>

\* ch <- e.up
SendUp(p) ==
  /\ pc[p] = "sendUp"
  /\ sent' = [sent EXCEPT ![p] =
                Append(@, Batch("up", {[name |-> "up", lvs |-> <<>>, value |-> up]}))]
  /\ pc' = [pc EXCEPT ![p] = "collectCounters"]
  /\ UNCHANGED <<mutex, up, counters, gauges, err, resp, body, allStats, todo,
                 upstream, last, before, descs>>

\* CollectCounters(p) ranging over e.gauges.
CollectCountersFromGauges(p) ==
  /\ pc[p] = "collectCounters"
  /\ sent' = [sent EXCEPT ![p] = Append(@, Batch("gauges", SeriesOf(gauges)))]
  /\ pc' = [pc EXCEPT ![p] = "collectGauges"]
  /\ UNCHANGED <<mutex, up, counters, gauges, err, resp, body, allStats, todo,
                 upstream, last, before, descs>>

\* for _, vec := range e.counters { vec.Collect(ch) }
CollectCounters(p) ==
  /\ pc[p] = "collectCounters"
  /\ sent' = [sent EXCEPT ![p] = Append(@, Batch("counters", SeriesOf(counters)))]
  /\ pc' = [pc EXCEPT ![p] = "collectGauges"]
  /\ UNCHANGED <<mutex, up, counters, gauges, err, resp, body, allStats, todo,
                 upstream, last, before, descs>>

\* for _, vec := range e.gauges { vec.Collect(ch) }
CollectGauges(p) ==
  /\ pc[p] = "collectGauges"
  /\ sent' = [sent EXCEPT ![p] = Append(@, Batch("gauges", SeriesOf(gauges)))]
  /\ pc' = [pc EXCEPT ![p] = "unlock"]
  /\ UNCHANGED <<mutex, up, counters, gauges, err, resp, body, allStats, todo,
                 upstream, last, before, descs>>

\* Unlock(p) were the call not deferred but the last statement of Collect:
\* the returns of the error paths leave the mutex held.
UnlockNotDeferred(p) ==
  /\ pc[p] = "unlock"
  /\ mutex' = IF err[p] = "none" THEN NoProc ELSE mutex
  /\ last' = Snapshot
  /\ pc' = [pc EXCEPT ![p] = "idle"]
  /\ err' = [err EXCEPT ![p] = "none"]
  /\ resp' = [resp EXCEPT ![p] = NoResp]
  /\ body' = [body EXCEPT ![p] = NoBody]
  /\ allStats' = [allStats EXCEPT ![p] = ZeroStats]
  /\ todo' = [todo EXCEPT ![p] = {}]
  /\ sent' = [sent EXCEPT ![p] = <<>>]
  /\ before' = [before EXCEPT ![p] = {}]
  /\ UNCHANGED <<up, counters, gauges, upstream, descs>>

\* The deferred e.mutex.Unlock() as Collect returns; the locals and the
\* channel of the invocation go with it.
Unlock(p) ==
  /\ pc[p] = "unlock"
  /\ mutex' = NoProc
  /\ last' = Snapshot
  /\ pc' = [pc EXCEPT ![p] = "idle"]
  /\ err' = [err EXCEPT ![p] = "none"]
  /\ resp' = [resp EXCEPT ![p] = NoResp]
  /\ body' = [body EXCEPT ![p] = NoBody]
  /\ allStats' = [allStats EXCEPT ![p] = ZeroStats]
  /\ todo' = [todo EXCEPT ![p] = {}]
  /\ sent' = [sent EXCEPT ![p] = <<>>]
  /\ before' = [before EXCEPT ![p] = {}]
  /\ UNCHANGED <<up, counters, gauges, upstream, descs>>

\* Describe(ch): takes no lock and may run at any moment, a cycle being
\* under way or not.
Describe ==
  /\ descs' = Described(counters, gauges)
  /\ UNCHANGED <<mutex, up, counters, gauges, pc, err, resp, body, allStats,
                 todo, sent, upstream, last, before>>

CollectStep ==
  \E p \in Procs :
    \/ Call(p)
    \/ Lock(p)
    \/ ResetGauges(p)
    \/ ResetCounters(p)
    \/ Get(p)
    \/ ReadAll(p)
    \/ SetUp(p)
    \/ Decode(p)
    \/ Remap(p)
    \/ SendUp(p)
    \/ CollectCounters(p)
    \/ CollectGauges(p)
    \/ Unlock(p)

Next == CollectStep \/ Describe

\* The exporter once main has registered it (registration describes it).
Spec == Init /\ [][Next]_vars

\* The exporter from its construction on.
SpecDescribe == InitUnregistered /\ [][Next]_vars

\* The registered exporter under scrapes alone, no Describe call coming in
\* between: for what a cycle does to the instruments.
SpecCollect == Init /\ [][CollectStep]_vars

\* The statements of Collect outside the range loop that request p runs
\* while it holds the mutex, the deferred Unlock last.
Run(p) ==
  \/ ResetGauges(p)
  \/ ResetCounters(p)
  \/ Get(p)
  \/ ReadAll(p)
  \/ SetUp(p)
  \/ Decode(p)
  \/ SendUp(p)
  \/ CollectCounters(p)
  \/ CollectGauges(p)
  \/ Unlock(p)

\* WF_vars(Remap(p)) with ENABLED <<Remap(p)>>_vars written out: an
\* iteration of the range loop can run exactly when p is in the loop.
LoopFair(p) == []<>(pc[p] # "remap") \/ []<><<Remap(p)>>_vars

\* The scheduling Collect runs under: a goroutine holding the mutex keeps
\* running (client.Get returns within the dial timeout and deadline, the
\* registry drains the channel), and sync.Mutex hands the lock to a waiter
\* that keeps being passed over (starvation mode).  Nothing obliges a
\* scrape to arrive, so Call and Describe are under no fairness.
Fairness ==
  \A p \in Procs : WF_vars(Run(p)) /\ LoopFair(p) /\ SF_vars(Lock(p))

SpecFair == Init /\ [][Next]_vars /\ Fairness

(***************************************************************************)
(* Properties.                                                             *)
(***************************************************************************)
\* p is between lock acquisition and lock release.
InCycle(p) == pc[p] \notin {"idle", "lock"}

\* p has run every statement of its cycle and is about to return.
AtEnd(p) == pc[p] = "unlock"

\* p's cycle went through fetch, read, decode and remap without an error.
Succeeded(p) == AtEnd(p) /\ err[p] = "none"

NoSeriesHeld == SeriesOf(counters) = {} /\ SeriesOf(gauges) = {}

UpBatch == Batch("up", {[name |-> "up", lvs |-> <<>>, value |-> up]})

C2_FetchFailureClears ==
  \A p \in Procs :
    (AtEnd(p) /\ err[p] \in {"get", "read"}) => (up = 0 /\ NoSeriesHeld)

\* A cycle whose GET failed has ended, and the instruments held series when
\* it started.
C2_Witness ==
  \E p \in Procs : AtEnd(p) /\ err[p] = "get" /\ before[p] # {} /\ up = 0

\* C3: a cycle whose body did not decode ends with up = 1 and no series in
\* any gauge or counter instrument.
C3_DecodeFailureClears ==
  \A p \in Procs :
    (AtEnd(p) /\ err[p] = "decode") => (up = 1 /\ NoSeriesHeld)

\* A cycle whose decode failed has ended, and the instruments held series
\* when it started.
C3_Witness ==
  \E p \in Procs :
    AtEnd(p) /\ err[p] = "decode" /\ before[p] # {} /\ body[p] = Malformed

\* C4: every cycle reports: when a cycle ends, whether or not its fetch,
\* read or decode failed, up has been sent on the channel, followed by the
\* counters and the gauges.
C4_EveryCycleReports ==
  \A p \in Procs :
    AtEnd(p) => (Len(sent[p]) = 3 /\ sent[p][1] = UpBatch)

\* The label-value tuples the payload of p's cycle has for instrument name.
PayloadKeys(p, name) ==
  LET cluster == allStats[p].ClusterName
      nodes == allStats[p].Nodes
  IN  IF name \in DOMAIN counterVecMetrics
        THEN {<<cluster, c>> : c \in UNION {DOMAIN nodes[n].Collectors : n \in DOMAIN nodes}}
      ELSE IF name \in DOMAIN gaugeVecMetrics
        THEN {<<cluster, b>> : b \in UNION {DOMAIN nodes[n].Breakers : n \in DOMAIN nodes}}
      ELSE {<<cluster>> : n \in DOMAIN nodes}

\* C5: when a cycle ends, the series of every instrument are among the
\* label combinations of that cycle's payload; a dimension label value that
\* an earlier cycle set and this payload lacks has no series.
C5_OnlyPayloadSeries ==
  \A p \in Procs :
    AtEnd(p) =>
      /\ \A s \in SeriesOf(counters) \cup SeriesOf(gauges) :
           s.lvs \in PayloadKeys(p, s.name)
      /\ \A k \in before[p] :
           (\A name \in DOMAIN counters \cup DOMAIN gauges : k \notin PayloadKeys(p, name))
             => k \notin HeldKeys

\* A successful cycle has ended whose payload lacks a collector or breaker
\* that had a series, under the same cluster name, when the cycle started.
C5_Witness ==
  \E p \in Procs :
    /\ Succeeded(p)
    /\ HeldKeys # {}
    /\ \E k \in before[p] :
         /\ Len(k) = 2
         /\ k[1] = allStats[p].ClusterName
         /\ k \notin HeldKeys

\* C6 as claimed: a cycle that ran against the same upstream as the cycle
\* before it leaves the state (up and every series) that cycle left.
C6_Idempotent ==
  \A p \in Procs : (AtEnd(p) /\ last.valid) => Snapshot = last

\* C6, amended: a cycle that ran against the same upstream as the cycle
\* before it, the payload having at most one node entry (or the fetch, read
\* or decode failing), leaves the state (up and every series) that cycle
\* left.
C6_IdempotentSingleNode ==
  \A p \in Procs :
    (AtEnd(p) /\ last.valid /\ Cardinality(DOMAIN allStats[p].Nodes) <= 1)
      => Snapshot = last

\* A successful cycle over a one-node payload has ended after a cycle
\* against the same upstream, and instruments hold series.
C6_Witness ==
  \E p \in Procs :
    /\ Succeeded(p)
    /\ last.valid
    /\ Cardinality(DOMAIN allStats[p].Nodes) = 1
    /\ SeriesOf(counters) # {}
    /\ SeriesOf(gauges) # {}

\* The source field of every scalar instrument, from the data model and the
\* metric names.
SourceField ==
     ("jvm_mem_heap_committed_bytes" :> "JVM.Mem.HeapCommitted")
  @@ ("jvm_mem_heap_used_bytes" :> "JVM.Mem.HeapUsed")
  @@ ("jvm_mem_heap_max_bytes" :> "JVM.Mem.HeapMax")
  @@ ("jvm_mem_non_heap_committed_bytes" :> "JVM.Mem.NonHeapCommitted")
  @@ ("jvm_mem_non_heap_used_bytes" :> "JVM.Mem.NonHeapUsed")
  @@ ("indices_fielddata_memory_size_bytes" :> "Indices.FieldData.MemorySize")
  @@ ("indices_fielddata_evictions" :> "Indices.FieldData.Evictions")
  @@ ("indices_filter_cache_memory_size_bytes" :> "Indices.FilterCache.MemorySize")
  @@ ("indices_filter_cache_evictions" :> "Indices.FilterCache.Evictions")
  @@ ("indices_docs" :> "Indices.Docs.Count")
  @@ ("indices_docs_deleted" :> "Indices.Docs.Deleted")
  @@ ("indices_segments_memory_bytes" :> "Indices.Segments.Memory")
  @@ ("indices_store_size_bytes" :> "Indices.Store.Size")
  @@ ("indices_store_throttle_time_ms_total" :> "Indices.Store.ThrottleTime")
  @@ ("indices_flush_total" :> "Indices.Flush.Total")
  @@ ("indices_flush_time_ms_total" :> "Indices.Flush.Time")
  @@ ("indices_indexing_index_total" :> "Indices.Indexing.IndexTotal")
  @@ ("indices_indexing_index_time_ms_total" :> "Indices.Indexing.IndexTime")
  @@ ("indices_merges_total" :> "Indices.Merges.Total")
  @@ ("indices_merges_total_docs_total" :> "Indices.Merges.TotalDocs")
  @@ ("indices_merges_total_size_bytes_total" :> "Indices.Merges.TotalSize")
  @@ ("indices_merges_total_time_ms_total" :> "Indices.Merges.TotalTime")
  @@ ("transport_rx_packets_total" :> "Transport.RxCount")
  @@ ("transport_rx_size_bytes_total" :> "Transport.RxSize")
  @@ ("transport_tx_packets_total" :> "Transport.TxCount")
  @@ ("transport_tx_size_bytes_total" :> "Transport.TxSize")

\* The value the series lvs of instrument name must have for node stats.
SourceValue(name, lvs, stats) ==
  CASE name = "jvm_gc_collections" -> stats.Collectors[lvs[2]].CollectionCount
    [] name = "jvm_gc_collections_time_ms" -> stats.Collectors[lvs[2]].CollectionTime
    [] name = "breakers_estimated_size_bytes" -> stats.Breakers[lvs[2]].EstimatedSize
    [] name = "breakers_limit_size_bytes" -> stats.Breakers[lvs[2]].LimitSize
    [] OTHER -> stats.scalar[SourceField[name]]

\* C7: after a successful cycle over a payload with exactly one node entry,
\* every series an instrument holds has the value of the instrument's own
\* source field, jvm_mem_heap_used_bytes{cluster} is set to jvm.mem.heapUsed,
\* and every breaker b of the payload has breakers_estimated_size_bytes
\* {cluster, b} = estimatedSize and breakers_limit_size_bytes{cluster, b} =
\* limitSize.
C7_ValuesFromOwnField ==
  \A p \in Procs :
    (Succeeded(p) /\ Cardinality(DOMAIN allStats[p].Nodes) = 1) =>
      LET cluster == allStats[p].ClusterName
          stats == allStats[p].Nodes[CHOOSE n \in DOMAIN allStats[p].Nodes : TRUE]
      IN  /\ \A s \in SeriesOf(counters) \cup SeriesOf(gauges) :
                s.value = SourceValue(s.name, s.lvs, stats)
          /\ <<cluster>> \in DOMAIN gauges["jvm_mem_heap_used_bytes"].series
          /\ gauges["jvm_mem_heap_used_bytes"].series[<<cluster>>]
               = stats.scalar["JVM.Mem.HeapUsed"]
          /\ \A b \in DOMAIN stats.Breakers :
               /\ <<cluster, b>> \in DOMAIN gauges["breakers_estimated_size_bytes"].series
               /\ <<cluster, b>> \in DOMAIN gauges["breakers_limit_size_bytes"].series
               /\ gauges["breakers_estimated_size_bytes"].series[<<cluster, b>>]
                    = stats.Breakers[b].EstimatedSize
               /\ gauges["breakers_limit_size_bytes"].series[<<cluster, b>>]
                    = stats.Breakers[b].LimitSize

\* A successful cycle over a one-node payload with two breakers has ended.
C7_Witness ==
  \E p \in Procs :
    /\ Succeeded(p)
    /\ Cardinality(DOMAIN allStats[p].Nodes) = 1
    /\ Cardinality(DOMAIN allStats[p].Nodes[1].Breakers) = 2
    /\ Cardinality(DOMAIN gauges["breakers_limit_size_bytes"].series) = 2

\* The instrument called name, in whichever map holds it.
Instrument(name) == IF name \in DOMAIN counters THEN counters[name] ELSE gauges[name]

\* C8: after a successful cycle every series of every instrument has the
\* decoded cluster name as its first label value, the first label of the
\* instrument being "cluster"; no series has another cycle's cluster name.
C8_ClusterFirst ==
  \A p \in Procs :
    Succeeded(p) =>
      \A s \in SeriesOf(counters) \cup SeriesOf(gauges) :
        /\ Instrument(s.name).labels[1] = "cluster"
        /\ s.lvs[1] = allStats[p].ClusterName

\* A successful cycle has ended with scalar and vector series, and the
\* instruments held series of another cluster name when it started.
C8_Witness ==
  \E p \in Procs :
    /\ Succeeded(p)
    /\ \E k \in HeldKeys : Len(k) = 2
    /\ \E k \in HeldKeys : Len(k) = 1
    /\ \E k \in before[p] : k[1] # allStats[p].ClusterName

\* C9: whatever a cycle has sent so far is up first, then the counter
\* series, then the gauge series: no gauge series before the counters and
\* nothing before up.
C9_ReportOrder ==
  \A p \in Procs :
    /\ Len(sent[p]) <= 3
    /\ \A i \in DOMAIN sent[p] : sent[p][i].kind = <<"up", "counters", "gauges">>[i]
    /\ \A i \in DOMAIN sent[p] :
         \A m \in sent[p][i].metrics :
           CASE i = 1 -> m.name = "up"
             [] i = 2 -> m.name \in DOMAIN counters
             [] OTHER -> m.name \in DOMAIN gauges

\* A cycle has sent up, counter series and gauge series.
C9_Witness ==
  \E p \in Procs :
    /\ Len(sent[p]) = 3
    /\ sent[p][1].metrics # {}
    /\ sent[p][2].metrics # {}
    /\ sent[p][3].metrics # {}

\* C10 as claimed: when a cycle ends, up = 1 exactly when its fetch, read
\* and decode all succeeded.
C10_UpIffDecoded ==
  \A p \in Procs : AtEnd(p) => (up = 1 <=> err[p] = "none")

\* C10, amended: when a cycle ends, up = 1 exactly when its fetch and body
\* read succeeded, whether or not the decode did; and up becomes 1 only by
\* the statement between the body read and the decode.
C10_UpIffFetched ==
  [][ /\ \A p \in Procs : AtEnd(p)' => (up' = 1 <=> err'[p] \notin {"get", "read"})
      /\ (up' = 1 /\ up # 1) =>
           \E p \in Procs : pc[p] = "setUp" /\ pc'[p] = "unmarshal" ]_vars

\* A cycle whose decode failed has ended with up = 1, up having been 0
\* before the cycle.
C10_Witness ==
  \E p \in Procs :
    /\ AtEnd(p)
    /\ err[p] = "decode"
    /\ up = 1
    /\ before[p] = {}

\* The descriptors the metric tables declare, one per name: scalar
\* instruments labelled by cluster, vector instruments by cluster and their
\* dimension.
DeclaredDescs(scalars, vecs) ==
  {[name |-> n, help |-> scalars[n], labels |-> <<"cluster">>] : n \in DOMAIN scalars}
    \cup {[name |-> n, help |-> vecs[n].help, labels |-> <<"cluster">> \o vecs[n].labels] :
            n \in DOMAIN vecs}

\* C11: whenever Describe has run, before the first cycle or after any
\* cycles, successful or failed, and also while one is under way, what it
\* sent is the descriptor of up, then that of every counter instrument, then
\* that of every gauge instrument, whatever series the instruments hold; and
\* a Describe step changes neither up nor any instrument's series.
C11_DescribeStable ==
  /\ [](descs # <<>> =>
          descs = << {UpDesc},
                     DeclaredDescs(counterMetrics, counterVecMetrics),
                     DeclaredDescs(gaugeMetrics, gaugeVecMetrics) >>)
  /\ [][Describe => UNCHANGED <<up, counters, gauges>>]_vars

\* Describe has run, and the instruments hold the series of a second
\* successful cycle.
C11_Witness ==
  /\ descs # <<>>
  /\ HeldKeys # {}
  /\ \E p \in Procs : Succeeded(p) /\ before[p] # {}

\* C12: under the scheduling of Fairness, every invocation that acquires
\* the mutex releases it, whichever path its cycle takes, and every
\* invocation waiting for the mutex comes to run its cycle; and the
\* instruments are never seen partially reset outside a cycle: inside a
\* cycle both resets come before any set (no series is held from the resets
\* to the decode), and whenever nobody holds the mutex the instruments are
\* as NewExporter built them or as the last completed cycle left them.
C12_LockReleasedNoPartialReset ==
  /\ \A p \in Procs : (mutex = p) ~> (mutex # p)
  /\ \A p \in Procs : (pc[p] = "lock") ~> InCycle(p)
  /\ [](\A p \in Procs :
          pc[p] \in {"get", "read", "setUp", "unmarshal"} => NoSeriesHeld)
  /\ [](mutex = NoProc =>
          IF last.valid THEN Snapshot = last ELSE (up = 0 /\ NoSeriesHeld))

\* An invocation is about to return on an error path of a cycle that began
\* with series held, another invocation waiting for the mutex.
C12_Witness ==
  \E p, q \in Procs :
    /\ AtEnd(p)
    /\ err[p] \in {"get", "read", "decode"}
    /\ before[p] # {}
    /\ mutex = p
    /\ pc[q] = "lock"

\* p is in the report at the end of Collect, at one of its sends.
Reporting(p) == pc[p] \in {"sendUp", "collectCounters", "collectGauges"}

\* C13 as claimed: the channel receives a cycle's instruments only once the
\* cycle has released the mutex, so that an invocation at one of its sends
\* keeps no waiting invocation from taking the mutex.
C13_SentAfterRelease ==
  \A p \in Procs :
    /\ sent[p] # <<>> => mutex # p
    /\ Reporting(p) => \A q \in Procs : pc[q] = "lock" => ENABLED Lock(q)

\* C13, amended: up and the instruments are changed only by a step of the
\* invocation holding the mutex; every send of a cycle is made while the
\* cycle holds the mutex, which it keeps until Collect returns; and while
\* an invocation is at one of its sends no other invocation can take the
\* mutex.
C13_MutatedAndSentUnderLock ==
  /\ [][(up' # up \/ counters' # counters \/ gauges' # gauges) =>
          /\ mutex # NoProc
          /\ mutex' = mutex
          /\ InCycle(mutex)
          /\ <<pc[mutex], todo[mutex]>>' # <<pc[mutex], todo[mutex]>>]_vars
  /\ [][\A p \in Procs :
          (sent'[p] # sent[p] /\ sent'[p] # <<>>) => (mutex = p /\ mutex' = p)]_vars
  /\ [](\A p \in Procs :
          Reporting(p) => (mutex = p /\ \A q \in Procs : ~ENABLED Lock(q)))

\* An invocation has sent up and the counters and is at the send of the
\* gauges, another invocation waiting for the mutex.
C13_Witness ==
  \E p, q \in Procs :
    /\ pc[p] = "collectGauges"
    /\ Len(sent[p]) = 2
    /\ sent[p][2].metrics # {}
    /\ pc[q] = "lock"

\* C14: when a successful cycle over a payload with at least one node entry
\* ends, every scalar gauge and scalar counter the tables declare,
\* indices_merges_total_docs_total among them, holds exactly one series,
\* the one labelled with the payload's cluster name.
C14_EveryScalarSet ==
  \A p \in Procs :
    (Succeeded(p) /\ DOMAIN allStats[p].Nodes # {}) =>
      \A name \in DOMAIN counterMetrics \cup DOMAIN gaugeMetrics :
        DOMAIN Instrument(name).series = {<<allStats[p].ClusterName>>}

\* The instrument states the range loop can leave when it starts from one
\* of the states ins and visits the nodes of rest, in any order.
RECURSIVE LoopResults(_, _, _, _)
LoopResults(ins, cluster, nodes, rest) ==
  IF rest = {}
    THEN ins
    ELSE UNION {LoopResults({RemapNode(in, cluster, nodes[n]) : in \in ins},
                            cluster, nodes, rest \ {n}) : n \in rest}

\* The states (up and the instruments) that the cycle p is ending can leave
\* when it is the first cycle of a newly built exporter.
FirstCycleStates(p) ==
  IF err[p] \in {"get", "read"}
    THEN {[up |-> 0, counters |-> NewCounters, gauges |-> NewGauges]}
  ELSE IF err[p] = "decode"
    THEN {[up |-> 1, counters |-> NewCounters, gauges |-> NewGauges]}
  ELSE {[up |-> 1, counters |-> r.counters, gauges |-> r.gauges] :
          r \in LoopResults({Instr(NewCounters, NewGauges, FALSE)},
                            allStats[p].ClusterName, allStats[p].Nodes,
                            DOMAIN allStats[p].Nodes)}

\* The state as it is now.
StateNow == [up |-> up, counters |-> counters, gauges |-> gauges]

RECURSIVE LoopLeaves(_, _, _, _, _)
LoopLeaves(in, cluster, nodes, rest, out) ==
  IF rest = {}
    THEN in.counters = out.counters /\ in.gauges = out.gauges /\ ~in.panicked
    ELSE \E n \in rest :
           \E next \in {RemapNode(in, cluster, nodes[n])} :
             LoopLeaves(next, cluster, nodes, rest \ {n}, out)

\* The cycle p is ending can leave the present state when it is the first
\* cycle of a newly built exporter.
FirstCycleLeaves(p) ==
  IF err[p] \in {"get", "read"}
    THEN StateNow = [up |-> 0, counters |-> NewCounters, gauges |-> NewGauges]
  ELSE IF err[p] = "decode"
    THEN StateNow = [up |-> 1, counters |-> NewCounters, gauges |-> NewGauges]
  ELSE /\ up = 1
       /\ LoopLeaves(Instr(NewCounters, NewGauges, FALSE),
                     allStats[p].ClusterName, allStats[p].Nodes,
                     DOMAIN allStats[p].Nodes, StateNow)

C16_LastNodeWins ==
  \A p \in Procs :
    (Succeeded(p) /\ Cardinality(DOMAIN allStats[p].Nodes) # 1) =>
      LET cluster == allStats[p].ClusterName
          nodes == allStats[p].Nodes
      IN  /\ up = 1
          /\ DOMAIN nodes = {} => NoSeriesHeld
          /\ DOMAIN nodes # {} =>
               \E n \in DOMAIN nodes :
                 \A name \in DOMAIN counterMetrics \cup DOMAIN gaugeMetrics :
                   Instrument(name).series =
                     (<<cluster>> :> nodes[n].scalar[SourceField[name]])

\* The instrument map, e.counters or e.gauges, that a set of ScalarRemap
\* looks its instrument up in.
MapOf(op) == IF op[1] = "gauges" THEN gauges ELSE counters

C18_SetsMatchDeclarations ==
  /\ \A p \in Procs : err[p] # "panic"
  /\ \A i \in DOMAIN ScalarRemap :
       /\ ScalarRemap[i][2] \in DOMAIN MapOf(ScalarRemap[i])
       /\ MapOf(ScalarRemap[i])[ScalarRemap[i][2]].labels = <<"cluster">>
  /\ \A name \in {"jvm_gc_collections", "jvm_gc_collections_time_ms"} :
       name \in DOMAIN counters /\ counters[name].labels = <<"cluster", "collector">>
  /\ \A name \in {"breakers_estimated_size_bytes", "breakers_limit_size_bytes"} :
       name \in DOMAIN gauges /\ gauges[name].labels = <<"cluster", "breaker">>
  /\ \A s \in SeriesOf(counters) \cup SeriesOf(gauges) :
       /\ Len(s.lvs) = Len(Instrument(s.name).labels)
       /\ s.lvs[1] \in ClusterNames \cup {""}
       /\ Instrument(s.name).labels[Len(s.lvs)] = "collector" =>
            s.lvs[2] \in {CollectorNames[i] : i \in DOMAIN CollectorNames}
       /\ Instrument(s.name).labels[Len(s.lvs)] = "breaker" =>
            s.lvs[2] \in {BreakerNames[i] : i \in DOMAIN BreakerNames}

\* A successful cycle over two nodes has made every kind of set: the
\* instruments hold two collector series, two breaker series and scalar
\* series.
C18_Witness ==
  \E p \in Procs :
    /\ Succeeded(p)
    /\ Cardinality(DOMAIN allStats[p].Nodes) = 2
    /\ Cardinality(DOMAIN counters["jvm_gc_collections_time_ms"].series) = 2
    /\ Cardinality(DOMAIN gauges["breakers_estimated_size_bytes"].series) = 2
    /\ gauges["jvm_mem_heap_max_bytes"].series # NoSeries
    /\ counters["transport_tx_size_bytes_total"].series # NoSeries

\* The names one metric table declares.
Names(table) == DOMAIN table

\* C19: no name is declared in two of the four metric tables, and in every
\* state, whatever Collect and Describe calls have run, e.counters and
\* e.gauges hold exactly one instrument per declared name, the ones
\* NewExporter built: a scalar instrument with the label cluster, a vector
\* instrument with cluster and then its dimension label, each with the help
\* text of its table.
C19_OneInstrumentPerName ==
  /\ \A s, t \in {"gauge", "counter", "counterVec", "gaugeVec"} :
       LET tbl(k) == CASE k = "gauge" -> Names(gaugeMetrics)
                       [] k = "counter" -> Names(counterMetrics)
                       [] k = "counterVec" -> Names(counterVecMetrics)
                       [] k = "gaugeVec" -> Names(gaugeVecMetrics)
       IN  s # t => tbl(s) \cap tbl(t) = {}
  /\ DOMAIN counters = Names(counterMetrics) \cup Names(counterVecMetrics)
  /\ DOMAIN gauges = Names(gaugeMetrics) \cup Names(gaugeVecMetrics)
  /\ Cardinality(DOMAIN counters) + Cardinality(DOMAIN gauges)
       = Cardinality(Names(counterMetrics)) + Cardinality(Names(counterVecMetrics))
         + Cardinality(Names(gaugeMetrics)) + Cardinality(Names(gaugeVecMetrics))
  /\ \A n \in Names(counterMetrics) :
       counters[n].labels = <<"cluster">> /\ counters[n].help = counterMetrics[n]
  /\ \A n \in Names(gaugeMetrics) :
       gauges[n].labels = <<"cluster">> /\ gauges[n].help = gaugeMetrics[n]
  /\ \A n \in Names(counterVecMetrics) :
       /\ counters[n].labels = <<"cluster">> \o counterVecMetrics[n].labels
       /\ counters[n].help = counterVecMetrics[n].help
  /\ \A n \in Names(gaugeVecMetrics) :
       /\ gauges[n].labels = <<"cluster">> \o gaugeVecMetrics[n].labels
       /\ gauges[n].help = gaugeVecMetrics[n].help

\* Describe has run, a failed cycle is ending that began with series held,
\* and another invocation waits.
C19_Witness ==
  /\ descs = Described(counters, gauges)
  /\ \E p, q \in Procs :
       /\ AtEnd(p)
       /\ err[p] = "read"
       /\ before[p] # {}
       /\ pc[q] = "lock"

====
